---- MODULE Spec2Model ----
(***************************************************************************)
(* Ride Now (src/app.js) as a state machine.                               *)
(*                                                                         *)
(* Backend: the request-ride handler, its delayed match callback, the      *)
(* ride-status query and the Socket.IO room join / emit / disconnect       *)
(* logic.  Client: the App component's state cells, its two handlers and   *)
(* the three conditional views of its render.                              *)
(*                                                                         *)
(* Time is a logical clock in milliseconds that advances when a timer      *)
(* comes due (discrete-event time).  Money is kept in cents, so            *)
(* parseFloat((x).toFixed(2)) is an integer number of cents.  A field of a *)
(* document that is absent (undefined) is the empty sequence None, a       *)
(* present one is the one-element sequence Some(v).                        *)
(***************************************************************************)
EXTENDS Integers, Sequences, FiniteSets, TLC

\* ------------------------------------------------------------------ bounds
MaxRequests == 2      \* request-ride calls issued in one behaviour
MaxSockets == 2       \* Socket.IO connections opened in one behaviour
MaxJoins == 2         \* joinRideRoom signals counted per socket and room

\* ------------------------------------------------------- program constants
SearchDelay == 3000   \* setTimeout(..., 3000)
FareSpread == 20      \* Math.random() * 20
FareBase == 10        \* ... + 10
EtaSpread == 5        \* Math.random() * 5
EtaBase == 2          \* ... + 2

\* Math.random() returns a double in [0, 1): modelled as n / RandomUnit, with
\* RandomUnit the resolution of the sampling.  The callback draws twice (the
\* fare, then the ETA): RandomDraws are the sampled pairs of numerators,
\* which put each draw at both ends of its range.
RandomUnit == 100000
RandomDraws == {<<0, RandomUnit - 1>>, <<RandomUnit - 1, 0>>}

Riders == {"u1", "u2"}
Sockets == 1..MaxSockets

None == <<>>
Some(v) == <<v>>

\* The request bodies a client can send: each field present or missing/empty
\* (the empty string stands for undefined, null and "" alike: all falsy).
Bodies ==
    [riderId : Riders \cup {""}, pickupLocation : {"A", ""}, destination : {"B", ""}]

VARIABLES
    now,        \* the logical clock (Date.now()), in ms
    nextId,     \* the ObjectId generator's counter
    reqs,       \* the request-ride calls so far, in arrival order
    db,         \* the rides collection: _id -> persisted document
    rooms,      \* socket -> the rooms it is in (the adapter's membership)
    conn,       \* socket -> "new" | "connected" | "disconnected"
    inbox,      \* socket -> the rideUpdate events it has received, in order
    everJoined, \* history: socket -> every room it has ever joined
    writes,     \* history: ride _id -> persisted updates after the insert
    fanouts,    \* history: ride _id -> io.to(...).emit calls made for it
    joins,      \* history: socket -> room -> joinRideRoom signals counted
    sample,     \* the mock match drawn from one Math.random() value, or None
    \* the client App component's useState cells and its event loop
    pickupLocation,
    destination,
    isRequesting,
    driverFound,
    rideDetails,
    error,
    appPc,      \* "idle", or the statement of the handler now running
    appTimer    \* whether handleRequestRide is suspended on its 3 s timer

clientVars ==
    <<pickupLocation, destination, isRequesting, driverFound, rideDetails, error,
      appPc, appTimer>>

serverVars == <<now, nextId, reqs, db, rooms, conn, inbox, everJoined, writes, fanouts>>

vars == <<serverVars, joins, sample, clientVars>>

\* ------------------------------------------------------------ pure helpers

\* Mutant of NewObjectId: the generator's counter is not advanced.
NewObjectIdStale(counter) == counter

\* new mongoose.Types.ObjectId(): a fresh identifier from the generator.
NewObjectId(counter) == counter + 1

\* Mutant of MissingDetails: the destination is not checked.
MissingDetailsNoDestination(body) ==
    body.riderId = "" \/ body.pickupLocation = ""

\* if (!riderId || !pickupLocation || !destination) -> 400
MissingDetails(body) ==
    body.riderId = "" \/ body.pickupLocation = "" \/ body.destination = ""

\* new Ride({riderId, pickupLocation, destination, status: 'searching'}):
\* the schema's defaults fill createdAt and updatedAt, the rest is absent.
NewRide(id, body, t) ==
    [_id |-> id,
     riderId |-> body.riderId,
     driverId |-> None,
     pickupLocation |-> body.pickupLocation,
     destination |-> body.destination,
     status |-> "searching",
     fare |-> None,
     estimatedArrivalTime |-> None,
     pickupTime |-> None,
     createdAt |-> t,
     updatedAt |-> t]

\* Mutant of RandomFare: the upper end of the range is taken for the spread.
RandomFareWide(r) ==
    (r * (FareSpread + FareBase) * 100 + FareBase * 100 * RandomUnit + RandomUnit \div 2)
        \div RandomUnit

\* (Math.random() * 20 + 10).toFixed(2), then parseFloat: cents, rounded to
\* the nearest cent.
RandomFare(r) ==
    (r * FareSpread * 100 + FareBase * 100 * RandomUnit + RandomUnit \div 2)
        \div RandomUnit

\* `${Math.floor(Math.random() * 5) + 2} minutes`
RandomEta(r) == <<((r * EtaSpread) \div RandomUnit) + EtaBase, "minutes">>

\* Mutant of ApplyMatch: the status written is the schema's default.
ApplyMatchPending(ride, driverId, fare, eta, t) ==
    [ride EXCEPT !.driverId = Some(driverId),
                 !.fare = Some(fare),
                 !.estimatedArrivalTime = Some(eta),
                 !.status = "pending",
                 !.pickupTime = Some(t)]

\* Mutant of ApplyMatch: pickupTime is left out of the update.
ApplyMatchNoPickupTime(ride, driverId, fare, eta, t) ==
    [ride EXCEPT !.driverId = Some(driverId),
                 !.fare = Some(fare),
                 !.estimatedArrivalTime = Some(eta),
                 !.status = "accepted"]

\* The callback's update of the in-memory document (no check of its status).
ApplyMatch(ride, driverId, fare, eta, t) ==
    [ride EXCEPT !.driverId = Some(driverId),
                 !.fare = Some(fare),
                 !.estimatedArrivalTime = Some(eta),
                 !.status = "accepted",
                 !.pickupTime = Some(t)]

\* Date.prototype.toLocaleTimeString(): the time of day to the second; the
\* date and the milliseconds are dropped.
ToLocaleTimeString(t) == (t \div 1000) % 86400

MockDriverName == "Alice Smith"
MockDriverVehicle == "Toyota Camry (ABC-123)"

\* The payload of the rideUpdate event.
RideUpdate(ride) ==
    [rideId |-> ride._id,
     status |-> ride.status,
     driverName |-> MockDriverName,
     driverVehicle |-> MockDriverVehicle,
     estimatedArrivalTime |-> ride.estimatedArrivalTime[1],
     fare |-> ride.fare[1],
     pickupTime |-> ToLocaleTimeString(ride.pickupTime[1]),
     message |-> "Driver found!"]

\* io.to(room): the sockets currently in the room.
RoomMembers(room) == {s \in Sockets : room \in rooms[s]}

\* Mutant of Emit: the event reaches one member of the room only.
EmitToOneMember(room, ev) ==
    [s \in Sockets |->
        IF s \in RoomMembers(room) /\ \A t \in RoomMembers(room) : s <= t
        THEN Append(inbox[s], ev) ELSE inbox[s]]

\* Mutant of Emit: io.emit, a broadcast to every connected socket.
EmitBroadcast(room, ev) ==
    [s \in Sockets |->
        IF conn[s] = "connected" THEN Append(inbox[s], ev) ELSE inbox[s]]

\* Mutant of Emit: a member gets the event once per join it made.
EmitPerJoin(room, ev) ==
    [s \in Sockets |->
        inbox[s] \o [i \in 1..(IF s \in RoomMembers(room) THEN joins[s][room] ELSE 0)
                        |-> ev]]

\* io.to(room).emit('rideUpdate', ev): one delivery to each member.
Emit(room, ev) ==
    [s \in Sockets |->
        IF s \in RoomMembers(room) THEN Append(inbox[s], ev) ELSE inbox[s]]

\* GET /api/rides/:id
RideStatusQuery(id) ==
    IF id \in DOMAIN db
    THEN [code |-> 200, ride |-> Some(db[id])]
    ELSE [code |-> 404, ride |-> None]

Requests == 1..Len(reqs)

SetPc(q, pc) == [reqs EXCEPT ![q].pc = pc]

\* ------------------------------------------------------------------- Init
Init ==
    /\ now = 0
    /\ nextId = 0
    /\ reqs = <<>>
    /\ db = <<>>
    /\ rooms = [s \in Sockets |-> {}]
    /\ conn = [s \in Sockets |-> "new"]
    /\ inbox = [s \in Sockets |-> <<>>]
    /\ everJoined = [s \in Sockets |-> {}]
    /\ writes = <<>>
    /\ fanouts = <<>>
    /\ joins = [s \in Sockets |-> [room \in Riders |-> 0]]
    /\ sample = None
    /\ pickupLocation = ""
    /\ destination = ""
    /\ isRequesting = FALSE
    /\ driverFound = FALSE
    /\ rideDetails = None
    /\ error = ""
    /\ appPc = "idle"
    /\ appTimer = 0

\* ---------------------------------------------------------------- actions

\* POST /api/rides/request with a body that lacks a field: 400, and return.
RequestRideInvalid(body) ==
    /\ Len(reqs) < MaxRequests
    /\ MissingDetails(body)
    /\ reqs' = Append(reqs, [body |-> body, pc |-> "rejected", ride |-> None,
                             due |-> None,
                             responses |-> <<[code |-> 400, rideId |-> None,
                                              status |-> None]>>])
    /\ UNCHANGED <<now, nextId, db, rooms, conn, inbox, everJoined, writes, fanouts,
                    joins, clientVars, sample>>

\* POST /api/rides/request with all three fields: the document is built and
\* newRide.save() is issued; the handler awaits it.
RequestRide(body) ==
    /\ Len(reqs) < MaxRequests
    /\ ~MissingDetails(body)
    /\ nextId' = NewObjectId(nextId)
    /\ reqs' = Append(reqs, [body |-> body, pc |-> "saving",
                             ride |-> Some(NewRide(NewObjectId(nextId), body, now)),
                             due |-> None,
                             responses |-> <<>>])
    /\ UNCHANGED <<now, db, rooms, conn, inbox, everJoined, writes, fanouts,
                    joins, clientVars, sample>>

\* The insert succeeds: the handler resumes and arms the 3-second timer.
\* Nothing is sent to the caller here.
InitialSaveOk(q) ==
    /\ q \in Requests
    /\ reqs[q].pc = "saving"
    /\ LET ride == reqs[q].ride[1] IN
        /\ ride._id \notin DOMAIN db
        /\ db' = (ride._id :> ride) @@ db
        /\ writes' = (ride._id :> 0) @@ writes
        /\ fanouts' = (ride._id :> 0) @@ fanouts
    /\ reqs' = [reqs EXCEPT ![q].pc = "waiting", ![q].due = Some(now + SearchDelay)]
    /\ UNCHANGED <<now, nextId, rooms, conn, inbox, everJoined,
                    joins, clientVars, sample>>

\* The insert fails (validation, cast or connection error): catch -> 500.
InitialSaveFail(q) ==
    /\ q \in Requests
    /\ reqs[q].pc = "saving"
    /\ reqs' = [reqs EXCEPT ![q].pc = "error",
                            ![q].responses = Append(@, [code |-> 500, rideId |-> None,
                                                        status |-> None])]
    /\ UNCHANGED <<now, nextId, db, rooms, conn, inbox, everJoined, writes, fanouts,
                    joins, clientVars, sample>>

\* The timer fires, no earlier than its due time: the mock match is drawn,
\* applied to the in-memory document, and newRide.save() is issued; the
\* callback awaits it.
MatchTimer(q, rFare, rEta) ==
    /\ q \in Requests
    /\ reqs[q].pc = "waiting"
    /\ now' = IF now < reqs[q].due[1] THEN reqs[q].due[1] ELSE now
    /\ nextId' = NewObjectId(nextId)
    /\ reqs' = [reqs EXCEPT
            ![q].pc = "matchSaving",
            ![q].ride = Some(ApplyMatch(reqs[q].ride[1], NewObjectId(nextId),
                                        RandomFare(rFare), RandomEta(rEta), now'))]
    /\ UNCHANGED <<db, rooms, conn, inbox, everJoined, writes, fanouts,
                    joins, clientVars, sample>>

\* Mutant of MatchSaveOk: the save is not awaited, the callback goes on to
\* emit before the update has reached the collection.
MatchSaveNotAwaited(q) ==
    /\ q \in Requests
    /\ reqs[q].pc = "matchSaving"
    /\ reqs' = SetPc(q, "emitting")
    /\ UNCHANGED <<now, nextId, db, rooms, conn, inbox, everJoined, writes, fanouts,
                    joins, clientVars, sample>>

\* Mutant of MatchSaveOk: the callbacks share one ride variable, so the
\* update lands on the record of the ride created last.
MatchSaveShared(q) ==
    /\ q \in Requests
    /\ reqs[q].pc = "matchSaving"
    /\ LET ride == reqs[q].ride[1]
           last == CHOOSE id \in DOMAIN db : \A other \in DOMAIN db : other <= id
       IN
        /\ db' = [db EXCEPT ![last] = [ride EXCEPT !._id = last]]
        /\ writes' = [writes EXCEPT ![last] = @ + 1]
    /\ reqs' = SetPc(q, "emitting")
    /\ UNCHANGED <<now, nextId, rooms, conn, inbox, everJoined, fanouts,
                    joins, clientVars, sample>>

\* The update is persisted: one write of the whole modified document.
MatchSaveOk(q) ==
    /\ q \in Requests
    /\ reqs[q].pc = "matchSaving"
    /\ LET ride == reqs[q].ride[1] IN
        /\ db' = [db EXCEPT ![ride._id] = ride]
        /\ writes' = [writes EXCEPT ![ride._id] = @ + 1]
    /\ reqs' = SetPc(q, "emitting")
    /\ UNCHANGED <<now, nextId, rooms, conn, inbox, everJoined, fanouts,
                    joins, clientVars, sample>>

\* The update is rejected: the await throws inside the timer callback, which
\* has no try/catch; nothing is emitted and no response is sent.
MatchSaveFail(q) ==
    /\ q \in Requests
    /\ reqs[q].pc = "matchSaving"
    /\ reqs' = SetPc(q, "unhandled")
    /\ UNCHANGED <<now, nextId, db, rooms, conn, inbox, everJoined, writes, fanouts,
                    joins, clientVars, sample>>

\* Mutant of MatchEmit: the timer is an interval, so it comes due again.
MatchEmitInterval(q) ==
    /\ q \in Requests
    /\ reqs[q].pc = "emitting"
    /\ LET ride == reqs[q].ride[1] IN
        /\ inbox' = Emit(reqs[q].body.riderId, RideUpdate(ride))
        /\ fanouts' = [fanouts EXCEPT ![ride._id] = @ + 1]
        /\ reqs' = [reqs EXCEPT
                ![q].pc = "waiting",
                ![q].due = Some(now + SearchDelay),
                ![q].responses = Append(@, [code |-> 200, rideId |-> Some(ride._id),
                                            status |-> Some(ride.status)])]
    /\ UNCHANGED <<now, nextId, db, rooms, conn, everJoined, writes,
                    joins, clientVars, sample>>

\* The callback resumes: io.to(riderId).emit('rideUpdate', ...) and then
\* res.status(200).json(...), the only response a valid request gets.
MatchEmit(q) ==
    /\ q \in Requests
    /\ reqs[q].pc = "emitting"
    /\ LET ride == reqs[q].ride[1] IN
        /\ inbox' = Emit(reqs[q].body.riderId, RideUpdate(ride))
        /\ fanouts' = [fanouts EXCEPT ![ride._id] = @ + 1]
        /\ reqs' = [reqs EXCEPT
                ![q].pc = "done",
                ![q].responses = Append(@, [code |-> 200, rideId |-> Some(ride._id),
                                            status |-> Some(ride.status)])]
    /\ UNCHANGED <<now, nextId, db, rooms, conn, everJoined, writes,
                    joins, clientVars, sample>>

\* io.on('connection'): socket s is the s-th connection the server accepts.
Connect(s) ==
    /\ conn[s] = "new"
    /\ \A t \in Sockets : t < s => conn[t] # "new"
    /\ conn' = [conn EXCEPT ![s] = "connected"]
    /\ UNCHANGED <<now, nextId, reqs, db, rooms, inbox, everJoined, writes, fanouts,
                    joins, clientVars, sample>>

\* Mutant of JoinRideRoom: missed events are queued and replayed on join.
JoinRideRoomReplay(s, userId) ==
    /\ conn[s] = "connected"
    /\ rooms' = [rooms EXCEPT ![s] = @ \cup {userId}]
    /\ everJoined' = [everJoined EXCEPT ![s] = @ \cup {userId}]
    /\ LET missed == SelectSeq([q \in 1..Len(reqs) |-> q],
                        LAMBDA q : /\ reqs[q].pc = "done"
                                   /\ reqs[q].body.riderId = userId
                                   /\ \A i \in 1..Len(inbox[s]) :
                                        inbox[s][i].rideId # reqs[q].ride[1]._id)
       IN inbox' = [inbox EXCEPT ![s] =
                        @ \o [i \in 1..Len(missed) |-> RideUpdate(reqs[missed[i]].ride[1])]]
    /\ UNCHANGED <<now, nextId, reqs, db, conn, writes, fanouts,
                    clientVars, sample>>

\* socket.on('joinRideRoom', userId): socket.join(userId), a set insertion.
JoinRideRoom(s, userId) ==
    /\ conn[s] = "connected"
    /\ rooms' = [rooms EXCEPT ![s] = @ \cup {userId}]
    /\ everJoined' = [everJoined EXCEPT ![s] = @ \cup {userId}]
    /\ UNCHANGED <<now, nextId, reqs, db, conn, inbox, writes, fanouts,
                    clientVars, sample>>

\* A join in a behaviour that keeps no count of the joins.
JoinUncounted(s, userId) == JoinRideRoom(s, userId) /\ UNCHANGED joins

\* A join in a behaviour that counts them, at most MaxJoins per socket and room.
JoinCounted(s, userId) ==
    /\ joins[s][userId] < MaxJoins
    /\ JoinRideRoom(s, userId)
    /\ joins' = [joins EXCEPT ![s][userId] = @ + 1]

\* Mutant of Disconnect: the socket stays in its rooms.
DisconnectKeepRooms(s) ==
    /\ conn[s] = "connected"
    /\ conn' = [conn EXCEPT ![s] = "disconnected"]
    /\ UNCHANGED <<now, nextId, reqs, db, rooms, inbox, everJoined, writes, fanouts,
                    joins, clientVars, sample>>

\* socket.on('disconnect'): the handler logs; the socket has left its rooms.
Disconnect(s) ==
    /\ conn[s] = "connected"
    /\ conn' = [conn EXCEPT ![s] = "disconnected"]
    /\ rooms' = [rooms EXCEPT ![s] = {}]
    /\ UNCHANGED <<now, nextId, reqs, db, inbox, everJoined, writes, fanouts,
                    joins, clientVars, sample>>

Next ==
    \/ \E body \in Bodies : RequestRideInvalid(body)
    \/ \E body \in Bodies : RequestRide(body)
    \/ \E q \in 1..MaxRequests : InitialSaveOk(q)
    \/ \E q \in 1..MaxRequests : InitialSaveFail(q)
    \/ \E q \in 1..MaxRequests, r \in RandomDraws : MatchTimer(q, r[1], r[2])
    \/ \E q \in 1..MaxRequests : MatchSaveOk(q)
    \/ \E q \in 1..MaxRequests : MatchSaveFail(q)
    \/ \E q \in 1..MaxRequests : MatchEmit(q)
    \/ \E s \in Sockets : Connect(s)
    \/ \E s \in Sockets, userId \in Riders : JoinUncounted(s, userId)
    \/ \E s \in Sockets : Disconnect(s)

Spec == Init /\ [][Next]_vars

\* The same server, with the joinRideRoom signals counted.
NextJoin ==
    \/ \E body \in Bodies : RequestRideInvalid(body)
    \/ \E body \in Bodies : RequestRide(body)
    \/ \E q \in 1..MaxRequests : InitialSaveOk(q)
    \/ \E q \in 1..MaxRequests : InitialSaveFail(q)
    \/ \E q \in 1..MaxRequests, r \in RandomDraws : MatchTimer(q, r[1], r[2])
    \/ \E q \in 1..MaxRequests : MatchSaveOk(q)
    \/ \E q \in 1..MaxRequests : MatchSaveFail(q)
    \/ \E q \in 1..MaxRequests : MatchEmit(q)
    \/ \E s \in Sockets : Connect(s)
    \/ \E s \in Sockets, userId \in Riders : JoinCounted(s, userId)
    \/ \E s \in Sockets : Disconnect(s)

SpecJoin == Init /\ [][NextJoin]_vars

\* ------------------------------------------------- the matching provider
\* The mock match of the timer callback on its own: fare and ETA as the
\* callback computes them from a value r / RandomUnit of Math.random().
DrawMatch ==
    /\ sample = None
    /\ \E r \in 0..(RandomUnit - 1) :
            sample' = Some([r |-> r, fare |-> RandomFare(r), eta |-> RandomEta(r)])
    /\ UNCHANGED <<serverVars, joins, clientVars>>

NextProvider == DrawMatch

SpecProvider == Init /\ [][NextProvider]_vars

\* ------------------------------------------------ the client App component
\* Each useState setter is a step of its own.  A handler runs to its end (or
\* to its await) without another handler starting: appPc names the statement
\* the running handler is at, "idle" when the event loop is free.

\* What the user can type into the two inputs: nothing, a blank (which the
\* validation's !value test lets through), or a place.
PickupInputs == {"", " ", "A", "C"}
DestinationInputs == {"", " ", "B", "D"}

ValidationMessage == "Please enter both pickup location and destination."

\* mockRideData
MockRideData ==
    [driverName |-> MockDriverName,
     driverVehicle |-> MockDriverVehicle,
     estimatedArrivalTime |-> "3 minutes",
     fare |-> "$15.50",
     pickupTime |-> ToLocaleTimeString(now),
     status |-> "Driver on the way"]

\* The three conditional blocks of the render.
FormShown == ~driverFound /\ ~isRequesting
SpinnerShown == isRequesting
PanelShown == driverFound /\ rideDetails # None

ViewsShown ==
    (IF FormShown THEN {"form"} ELSE {})
        \cup (IF SpinnerShown THEN {"spinner"} ELSE {})
        \cup (IF PanelShown THEN {"panel"} ELSE {})

\* onChange of the pickup input: setPickupLocation(e.target.value)
TypePickup(v) ==
    /\ appPc = "idle" /\ FormShown
    /\ pickupLocation' = v
    /\ UNCHANGED <<destination, isRequesting, driverFound, rideDetails, error, appPc,
                    appTimer, serverVars, joins, sample>>

\* onChange of the destination input: setDestination(e.target.value)
TypeDestination(v) ==
    /\ appPc = "idle" /\ FormShown
    /\ destination' = v
    /\ UNCHANGED <<pickupLocation, isRequesting, driverFound, rideDetails, error, appPc,
                    appTimer, serverVars, joins, sample>>

\* handleRequestRide, from the submit to its first setter: the validation
\* message and return, or setError('').
HandleRequestRide ==
    /\ appPc = "idle" /\ FormShown
    /\ IF pickupLocation = "" \/ destination = ""
       THEN error' = ValidationMessage /\ appPc' = "idle"
       ELSE error' = "" /\ appPc' = "setIsRequesting(true)"
    /\ UNCHANGED <<pickupLocation, destination, isRequesting, driverFound, rideDetails,
                    appTimer, serverVars, joins, sample>>

\* setIsRequesting(true)
SetIsRequestingTrue ==
    /\ appPc = "setIsRequesting(true)"
    /\ isRequesting' = TRUE
    /\ appPc' = "setDriverFound(false)"
    /\ UNCHANGED <<pickupLocation, destination, driverFound, rideDetails, error,
                    appTimer, serverVars, joins, sample>>

\* setDriverFound(false)
SetDriverFoundFalse ==
    /\ appPc = "setDriverFound(false)"
    /\ driverFound' = FALSE
    /\ appPc' = "setRideDetails(null)"
    /\ UNCHANGED <<pickupLocation, destination, isRequesting, rideDetails, error,
                    appTimer, serverVars, joins, sample>>

\* setRideDetails(null), then the await on the 3-second timer suspends the
\* handler.
SetRideDetailsNull ==
    /\ appPc = "setRideDetails(null)"
    /\ rideDetails' = None
    /\ appTimer' = appTimer + 1
    /\ appPc' = "idle"
    /\ UNCHANGED <<pickupLocation, destination, isRequesting, driverFound, error,
                    serverVars, joins, sample>>

\* The timer resolves and the handler resumes: setRideDetails(mockRideData).
AppTimerResolves ==
    /\ appPc = "idle"
    /\ appTimer > 0
    /\ appTimer' = appTimer - 1
    /\ rideDetails' = Some(MockRideData)
    /\ appPc' = "setDriverFound(true)"
    /\ UNCHANGED <<pickupLocation, destination, isRequesting, driverFound, error,
                    serverVars, joins, sample>>

\* setDriverFound(true)
SetDriverFoundTrue ==
    /\ appPc = "setDriverFound(true)"
    /\ driverFound' = TRUE
    /\ appPc' = "setIsRequesting(false)"
    /\ UNCHANGED <<pickupLocation, destination, isRequesting, rideDetails, error,
                    appTimer, serverVars, joins, sample>>

\* finally: setIsRequesting(false)
SetIsRequestingFalse ==
    /\ appPc = "setIsRequesting(false)"
    /\ isRequesting' = FALSE
    /\ appPc' = "idle"
    /\ UNCHANGED <<pickupLocation, destination, driverFound, rideDetails, error,
                    appTimer, serverVars, joins, sample>>

\* handleNewRide, from the click to its first setter: setPickupLocation('')
HandleNewRide ==
    /\ appPc = "idle" /\ PanelShown
    /\ pickupLocation' = ""
    /\ appPc' = "new:setDestination"
    /\ UNCHANGED <<destination, isRequesting, driverFound, rideDetails, error,
                    appTimer, serverVars, joins, sample>>

\* setDestination('')
NewRideSetDestination ==
    /\ appPc = "new:setDestination"
    /\ destination' = ""
    /\ appPc' = "new:setIsRequesting"
    /\ UNCHANGED <<pickupLocation, isRequesting, driverFound, rideDetails, error,
                    appTimer, serverVars, joins, sample>>

\* setIsRequesting(false)
NewRideSetIsRequesting ==
    /\ appPc = "new:setIsRequesting"
    /\ isRequesting' = FALSE
    /\ appPc' = "new:setDriverFound"
    /\ UNCHANGED <<pickupLocation, destination, driverFound, rideDetails, error,
                    appTimer, serverVars, joins, sample>>

\* setDriverFound(false)
NewRideSetDriverFound ==
    /\ appPc = "new:setDriverFound"
    /\ driverFound' = FALSE
    /\ appPc' = "new:setRideDetails"
    /\ UNCHANGED <<pickupLocation, destination, isRequesting, rideDetails, error,
                    appTimer, serverVars, joins, sample>>

\* setRideDetails(null)
NewRideSetRideDetails ==
    /\ appPc = "new:setRideDetails"
    /\ rideDetails' = None
    /\ appPc' = "new:setError"
    /\ UNCHANGED <<pickupLocation, destination, isRequesting, driverFound, error,
                    appTimer, serverVars, joins, sample>>

\* setError('')
NewRideSetError ==
    /\ appPc = "new:setError"
    /\ error' = ""
    /\ appPc' = "idle"
    /\ UNCHANGED <<pickupLocation, destination, isRequesting, driverFound, rideDetails,
                    appTimer, serverVars, joins, sample>>

NextApp ==
    \/ \E v \in PickupInputs : TypePickup(v)
    \/ \E v \in DestinationInputs : TypeDestination(v)
    \/ HandleRequestRide
    \/ SetIsRequestingTrue
    \/ SetDriverFoundFalse
    \/ SetRideDetailsNull
    \/ AppTimerResolves
    \/ SetDriverFoundTrue
    \/ SetIsRequestingFalse
    \/ HandleNewRide
    \/ NewRideSetDestination
    \/ NewRideSetIsRequesting
    \/ NewRideSetDriverFound
    \/ NewRideSetRideDetails
    \/ NewRideSetError

SpecApp == Init /\ [][NextApp]_vars

\* ----------------------------------------------------------------- claims

ValidRequests == {q \in Requests : reqs[q].ride # None}

RideOf(q) == reqs[q].ride[1]

\* The rideUpdate events for ride id among the events a socket received.
EventsFor(events, id) == SelectSeq(events, LAMBDA ev : ev.rideId = id)

\* The match callback of request q has run (its timer has fired).
MatchRan(q) == reqs[q].pc \in {"matchSaving", "emitting", "unhandled", "done"}

\* Request q's callback goes from its resolved save to emit and respond.
EmitStep(q) == reqs[q].pc = "emitting" /\ reqs'[q].pc = "done"

\* C1: every valid request-ride call is acknowledged with the ride identifier
\* and status `searching` before its match timer completes: once the match
\* callback has run, that acknowledgment has already been sent.
C1_AckBeforeMatch ==
    \A q \in ValidRequests :
        MatchRan(q) =>
            /\ reqs[q].responses # <<>>
            /\ reqs[q].responses[1].rideId = Some(RideOf(q)._id)
            /\ reqs[q].responses[1].status = Some("searching")

\* C2: a request-ride call lacking riderId, pickupLocation or destination is
\* answered 400 at once; it builds no ride, arms no timer, and every ride
\* record and every delivered event belongs to a request that had all three.
C2_InvalidRejected ==
    /\ \A q \in Requests :
        (reqs[q].body.riderId = "" \/ reqs[q].body.pickupLocation = ""
            \/ reqs[q].body.destination = "") =>
            /\ reqs[q].pc = "rejected"
            /\ Len(reqs[q].responses) = 1
            /\ reqs[q].responses[1].code = 400
            /\ reqs[q].ride = None
            /\ reqs[q].due = None
    /\ \A id \in DOMAIN db :
        /\ db[id].riderId # "" /\ db[id].pickupLocation # "" /\ db[id].destination # ""
        /\ \E q \in Requests : reqs[q].pc # "rejected" /\ reqs[q].ride # None /\ RideOf(q)._id = id
    /\ \A s \in Sockets : \A i \in 1..Len(inbox[s]) :
        \E q \in Requests :
            /\ reqs[q].pc # "rejected"
            /\ reqs[q].ride # None
            /\ RideOf(q)._id = inbox[s][i].rideId

\* C2 witness: a rejected request beside a served one whose event was delivered.
C2_Witness ==
    /\ \E q \in Requests : reqs[q].pc = "rejected" /\ reqs[q].body.pickupLocation = ""
    /\ \E q \in Requests : reqs[q].pc = "done"
    /\ \E s \in Sockets : inbox[s] # <<>>

\* C3: when the match of a ride owned by R completes, every connected channel
\* that joined R's room receives exactly one rideUpdate with that rideId, the
\* same payload for all of them; no channel ever holds two events of one ride.
C3_EachMemberOnce ==
    [][/\ \A q \in Requests :
            EmitStep(q) =>
                \A s \in Sockets :
                    (conn[s] = "connected" /\ reqs[q].body.riderId \in everJoined[s]) =>
                        /\ EventsFor(inbox[s], RideOf(q)._id) = <<>>
                        /\ EventsFor(inbox'[s], RideOf(q)._id)
                                = <<RideUpdate(db[RideOf(q)._id])>>
       /\ \A s \in Sockets : \A id \in DOMAIN db' :
            Len(EventsFor(inbox'[s], id)) <= 1]_vars

\* C3 witness: two connected channels of one room hold the same single event.
C3_Witness ==
    \E q \in Requests : \E s, t \in Sockets :
        /\ s # t
        /\ reqs[q].pc = "done"
        /\ conn[s] = "connected" /\ conn[t] = "connected"
        /\ reqs[q].body.riderId \in rooms[s] \cap rooms[t]
        /\ Len(EventsFor(inbox[s], RideOf(q)._id)) = 1
        /\ EventsFor(inbox[s], RideOf(q)._id) = EventsFor(inbox[t], RideOf(q)._id)

\* C4: at a match completion for rider R, a channel that joined R's room and
\* has disconnected receives nothing, while every channel that joined and is
\* still connected receives the ride's event.
C4_DisconnectedGetNothing ==
    [][\A q \in Requests :
            EmitStep(q) =>
                \A s \in Sockets :
                    reqs[q].body.riderId \in everJoined[s] =>
                        /\ conn[s] = "disconnected" => inbox'[s] = inbox[s]
                        /\ conn[s] = "connected" =>
                            inbox'[s] = Append(inbox[s], RideUpdate(RideOf(q)))]_vars

\* C4 witness: of two channels that joined R, the one that disconnected before
\* the match holds no event of the ride and the other holds it.
C4_Witness ==
    \E q \in Requests : \E s, t \in Sockets :
        /\ reqs[q].pc = "done"
        /\ reqs[q].body.riderId \in everJoined[s] \cap everJoined[t]
        /\ conn[s] = "disconnected"
        /\ EventsFor(inbox[s], RideOf(q)._id) = <<>>
        /\ Len(EventsFor(inbox[t], RideOf(q)._id)) = 1

\* C5: a channel's events change only by the emit of a ride whose rider's room
\* the channel is in at that moment, so a channel never holds an event of a
\* ride whose rider it has not joined.
C5_OnlyRoomMembers ==
    [][/\ \A s \in Sockets :
            inbox'[s] # inbox[s] =>
                \E q \in Requests :
                    /\ EmitStep(q)
                    /\ reqs[q].body.riderId \in rooms[s]
                    /\ inbox'[s] = Append(inbox[s], RideUpdate(RideOf(q)))
       /\ \A s \in Sockets : \A i \in 1..Len(inbox'[s]) :
            db'[inbox'[s][i].rideId].riderId \in everJoined'[s]]_vars

\* C5 witness: a ride of u1 was delivered to a member of u1's room while a
\* connected channel that joined only u2 received nothing.
C5_Witness ==
    \E q \in Requests : \E s, t \in Sockets :
        /\ reqs[q].pc = "done"
        /\ reqs[q].body.riderId = "u1"
        /\ conn[s] = "connected" /\ everJoined[s] = {"u2"} /\ inbox[s] = <<>>
        /\ Len(EventsFor(inbox[t], RideOf(q)._id)) = 1

\* The lifecycle graph: searching -> accepted -> on_the_way -> completed, and
\* cancelled from any state that is not terminal.
StatusRank(status) ==
    CASE status = "searching" -> 1
      [] status = "accepted" -> 2
      [] status = "on_the_way" -> 3
      [] status = "completed" -> 4
      [] OTHER -> 0

MovesForward(from, to) ==
    \/ to = from
    \/ /\ StatusRank(from) > 0 /\ StatusRank(to) > 0
       /\ StatusRank(from) < StatusRank(to)
    \/ to = "cancelled" /\ from \in {"searching", "accepted", "on_the_way"}

\* C6: the persisted status of a ride only moves forward through the
\* lifecycle graph: no step takes it back or out of a terminal state, and no
\* ride record disappears.
C6_StatusForward ==
    [][\A id \in DOMAIN db :
            /\ id \in DOMAIN db'
            /\ MovesForward(db[id].status, db'[id].status)]_vars

\* C6 witness: a persisted ride has moved on to accepted.
C6_Witness == \E id \in DOMAIN db : db[id].status = "accepted"

\* The four fields the match sets.
MatchFields(ride) ==
    <<ride.driverId, ride.fare, ride.estimatedArrivalTime, ride.pickupTime>>

\* C7: in every persisted state of a ride, driverId, fare, ETA and pickupTime
\* are all absent while it is searching and all present once it is accepted;
\* they arrive in the one update that changes the status, and fare and ETA,
\* once set, are never written again.
C7_MatchFieldsAtomic ==
    /\ [](\A id \in DOMAIN db :
            /\ db[id].status \in {"searching", "accepted"}
            /\ db[id].status = "searching" =>
                    MatchFields(db[id]) = <<None, None, None, None>>
            /\ db[id].status = "accepted" =>
                    \A i \in 1..4 : MatchFields(db[id])[i] # None)
    /\ [][\A id \in DOMAIN db :
            /\ db[id].status # db'[id].status =>
                    \A i \in 1..4 :
                        MatchFields(db[id])[i] = None /\ MatchFields(db'[id])[i] # None
            /\ db[id].fare # None => db'[id].fare = db[id].fare
            /\ db[id].estimatedArrivalTime # None =>
                    db'[id].estimatedArrivalTime = db[id].estimatedArrivalTime]_vars

\* C7 witness: one persisted ride is still searching, another is accepted.
C7_Witness ==
    \E a, b \in DOMAIN db : db[a].status = "searching" /\ db[b].status = "accepted"

C10_SearchingAndUnique ==
    /\ [](\A q \in Requests :
            ~(reqs[q].body.riderId = "" \/ reqs[q].body.pickupLocation = ""
                \/ reqs[q].body.destination = "") =>
                /\ reqs[q].ride # None
                /\ reqs[q].pc = "saving" => RideOf(q).status = "searching"
                /\ \A p \in ValidRequests : p # q => RideOf(p)._id # RideOf(q)._id)
    /\ [][\A id \in DOMAIN db' :
            id \notin DOMAIN db =>
                /\ db'[id].status = "searching"
                /\ db'[id]._id = id]_vars

\* C10 witness: two rides of the same rider, both persisted, created
\* concurrently (neither match had run when the second was inserted).
C10_Witness ==
    \E p, q \in ValidRequests :
        /\ p # q
        /\ reqs[p].body.riderId = reqs[q].body.riderId
        /\ reqs[p].pc = "waiting" /\ reqs[q].pc = "waiting"
        /\ RideOf(p)._id \in DOMAIN db /\ RideOf(q)._id \in DOMAIN db

\* C11: a match that completes while no channel is in the rider's room is
\* delivered to nobody, the ride is accepted all the same and the callback
\* goes on to its response; once the match has completed, no channel ever
\* gains that ride's event, whatever it joins afterwards.
C11_DroppedNotQueued ==
    [][\A q \in Requests :
        /\ (EmitStep(q) /\ \A s \in Sockets : reqs[q].body.riderId \notin rooms[s]) =>
                /\ inbox' = inbox
                /\ db'[RideOf(q)._id].status = "accepted"
                /\ reqs'[q].responses = <<[code |-> 200, rideId |-> Some(RideOf(q)._id),
                                           status |-> Some("accepted")]>>
        /\ reqs[q].pc = "done" =>
                \A s \in Sockets :
                    EventsFor(inbox'[s], RideOf(q)._id) = EventsFor(inbox[s], RideOf(q)._id)]_vars

\* C11 witness: the match completed with nobody in the room; a channel that
\* joined the rider's room afterwards is connected and holds no event.
C11_Witness ==
    \E q \in Requests : \E s \in Sockets :
        /\ reqs[q].pc = "done"
        /\ db[RideOf(q)._id].status = "accepted"
        /\ \A t \in Sockets : EventsFor(inbox[t], RideOf(q)._id) = <<>>
        /\ conn[s] = "connected"
        /\ reqs[q].body.riderId \in rooms[s]

\* The handler of request q, its timer callback included, has run to its end.
HandlerEnded(q) == reqs[q].pc \in {"rejected", "error", "unhandled", "done"}

\* C12: every ride created in `searching` leaves `searching` once its match
\* timer has fired: when the timer callback has ended, the persisted ride is
\* accepted, or cancelled if the provider or the persistence failed.
C12_LeavesSearching ==
    \A q \in ValidRequests :
        (RideOf(q)._id \in DOMAIN db /\ reqs[q].pc \in {"unhandled", "done"}) =>
            db[RideOf(q)._id].status \in {"accepted", "cancelled"}

\* C17: the update that makes a ride accepted sets updatedAt to the match
\* time: on an accepted ride updatedAt equals pickupTime and is no longer the
\* creation-time value.
C17_UpdatedAtIsMatchTime ==
    \A id \in DOMAIN db :
        db[id].status = "accepted" =>
            /\ db[id].updatedAt = db[id].pickupTime[1]
            /\ db[id].updatedAt # db[id].createdAt

\* C18: every request-ride call is answered exactly once: never by two
\* responses, and by one when its handler (timer callback included) has ended,
\* whatever validation, the two saves and the timer did.
C18_ExactlyOneResponse ==
    \A q \in Requests :
        /\ Len(reqs[q].responses) <= 1
        /\ HandlerEnded(q) => Len(reqs[q].responses) = 1

\* C13: with the reference provider the fare is between 10.00 and 30.00
\* inclusive (in cents, so with two decimals) and the ETA is a whole number
\* of minutes between 2 and 7 inclusive, for every value Math.random() yields.
C13_FareAndEtaInRange ==
    sample # None =>
        /\ sample[1].fare \in 1000..3000
        /\ sample[1].eta[1] \in 2..7
        /\ sample[1].eta[2] = "minutes"

\* C13 witness: a draw at the top of the range: the fare rounds up to 30.00.
C13_Witness ==
    /\ sample # None
    /\ sample[1].fare = 3000
    /\ sample[1].eta[1] = 6

\* C14: a ride's event is emitted only after its accepted state is persisted:
\* when the callback is about to emit, and for every event any channel holds,
\* the ride-status query for that rideId answers 200 with status `accepted`
\* and the fare and ETA of the event.
C14_PersistedBeforeDelivered ==
    /\ \A q \in ValidRequests :
        reqs[q].pc \in {"emitting", "done"} =>
            /\ RideStatusQuery(RideOf(q)._id).code = 200
            /\ RideStatusQuery(RideOf(q)._id).ride[1].status = "accepted"
            /\ RideStatusQuery(RideOf(q)._id).ride[1] = RideOf(q)
    /\ \A s \in Sockets : \A i \in 1..Len(inbox[s]) :
        LET ev == inbox[s][i]
            answer == RideStatusQuery(ev.rideId)
        IN  /\ answer.code = 200
            /\ answer.ride[1].status = "accepted"
            /\ ev.status = "accepted"
            /\ answer.ride[1].fare = Some(ev.fare)
            /\ answer.ride[1].estimatedArrivalTime = Some(ev.estimatedArrivalTime)

\* C14 witness: a channel holds the event of a ride while another ride is
\* still searching, its callback waiting on the save.
C14_Witness ==
    \E q, p \in ValidRequests : \E s \in Sockets :
        /\ reqs[q].pc = "done"
        /\ Len(EventsFor(inbox[s], RideOf(q)._id)) = 1
        /\ reqs[p].pc = "matchSaving"
        /\ RideStatusQuery(RideOf(p)._id).ride[1].status = "searching"

\* Request q's callback has its update persisted.
SaveStep(q) == reqs[q].pc = "matchSaving" /\ reqs'[q].pc = "emitting"

\* C15: requests in flight together do not interfere, whatever the order of
\* their timers: the persisted update of one callback changes its own ride's
\* record only and makes it accepted with the driver, fare and ETA drawn for
\* it; its emit delivers events carrying its own rideId only; accepted rides
\* have distinct drivers and each completed ride was fanned out once.
C15_NoInterference ==
    /\ [](/\ \A a, b \in DOMAIN db :
                (a # b /\ db[a].status = "accepted" /\ db[b].status = "accepted") =>
                    db[a].driverId # db[b].driverId
          /\ \A q \in ValidRequests :
                reqs[q].pc = "done" =>
                    /\ db[RideOf(q)._id] = RideOf(q)
                    /\ fanouts[RideOf(q)._id] = 1)
    /\ [][\A q \in Requests :
            /\ SaveStep(q) =>
                /\ \A id \in DOMAIN db : id # RideOf(q)._id => db'[id] = db[id]
                /\ db'[RideOf(q)._id] = RideOf(q)
                /\ db'[RideOf(q)._id]._id = RideOf(q)._id
                /\ db'[RideOf(q)._id].status = "accepted"
            /\ EmitStep(q) =>
                /\ db' = db
                /\ \A s \in Sockets :
                    \/ inbox'[s] = inbox[s]
                    \/ /\ inbox'[s] = Append(inbox[s], RideUpdate(RideOf(q)))
                       /\ inbox'[s][Len(inbox'[s])].rideId = RideOf(q)._id]_vars

\* C15 witness: two rides of one rider were in flight together, their timers
\* fired in the reverse of the order of creation (the later ride got the
\* earlier driver id), both are accepted with different fares, and a channel
\* holds one event for each.
C15_Witness ==
    \E p, q \in ValidRequests : \E s \in Sockets :
        /\ p < q
        /\ reqs[p].body.riderId = reqs[q].body.riderId
        /\ reqs[p].pc = "done" /\ reqs[q].pc = "done"
        /\ RideOf(q)._id < RideOf(p).driverId[1]
        /\ RideOf(q).driverId[1] < RideOf(p).driverId[1]
        /\ db[RideOf(p)._id].fare # db[RideOf(q)._id].fare
        /\ Len(EventsFor(inbox[s], RideOf(p)._id)) = 1
        /\ Len(EventsFor(inbox[s], RideOf(q)._id)) = 1

\* C16: joining is idempotent: a joinRideRoom for a room the channel is
\* already in leaves the membership as it was, and a connected channel that
\* joined a rider's room, once or several times, gets exactly one event when
\* a match of that rider completes; no channel ever holds two events of a ride.
C16_JoinIdempotent ==
    [][/\ \A s \in Sockets : \A room \in Riders :
            (joins'[s][room] = joins[s][room] + 1 /\ joins[s][room] >= 1) =>
                /\ room \in rooms[s]
                /\ rooms'[s] = rooms[s]
       /\ \A q \in Requests :
            EmitStep(q) =>
                \A s \in Sockets :
                    (conn[s] = "connected" /\ joins[s][reqs[q].body.riderId] >= 1) =>
                        inbox'[s] = Append(inbox[s], RideUpdate(RideOf(q)))
       /\ \A s \in Sockets : \A id \in DOMAIN db' :
            Len(EventsFor(inbox'[s], id)) <= 1]_vars

\* C16 witness: a channel joined a rider's room twice and holds exactly one
\* event of that rider's completed ride.
C16_Witness ==
    \E q \in Requests : \E s \in Sockets :
        /\ reqs[q].pc = "done"
        /\ joins[s][reqs[q].body.riderId] = MaxJoins
        /\ MaxJoins >= 2
        /\ conn[s] = "connected"
        /\ Len(EventsFor(inbox[s], RideOf(q)._id)) = 1

\* C19: in the client App, with every state setter a step of its own,
\* isRequesting and driverFound are never both true, at most one of the three
\* views is shown at a time, and no second request is started while one is
\* in flight.
C19_OneViewAtATime ==
    /\ ~(isRequesting /\ driverFound)
    /\ Cardinality(ViewsShown) <= 1
    /\ appTimer <= 1
    /\ appTimer = 1 => isRequesting

====
